---------------------------- MODULE Spec2Model ----------------------------
(***************************************************************************)
(* Model of wanderlust.py: the chat/map demo's run coordinator.            *)
(*                                                                         *)
(* Threads: the UI thread runs handle_initial once at mount and then       *)
(* add_message (the InputText on_value callback); one background worker   *)
(* at a time runs poll (use_thread,                                        *)
(* restarted whenever run_id.value changes).  The conversation service is  *)
(* the environment: it holds the thread's messages and the runs, and moves *)
(* each run through its statuses.                                          *)
(*                                                                         *)
(* use_thread runs one poll at a time: a launch requested while a poll is   *)
(* running starts after that poll has ended, and a poll that has started   *)
(* runs until it returns or raises.                                        *)
(*                                                                         *)
(* Atomicity: one Python statement of add_message / poll is one step; a    *)
(* statement holds at most one call to the service.                        *)
(* Coordinates are integers here (the code passes JSON numbers through     *)
(* unchanged, so only their identity matters).                             *)
(***************************************************************************)
EXTENDS Integers, Sequences, FiniteSets, TLC

\* ---------------------------------------------------------------- bounds
MaxRuns == 2        \* non-empty messages submitted (one run each)
MaxCalls == 2       \* tool calls the service requests in total
MaxBatch == 2       \* tool calls in one requires_action payload

\* ------------------------------------------------------ program constants
None == 0                       \* run_id = None (run ids are 1, 2, ...)
center_default == <<0, 0>>
zoom_default == 2

\* A log that starts with an assistant message carrying a tool call.
messages_preloaded ==
    << [id |-> 0, role |-> "assistant", content |-> "",
        tool_calls |->
          << [id |-> 0,
              function |->
                [name |-> "update_map",
                 arguments |->
                   [json_ok |-> TRUE, keys |-> {"longitude", "latitude", "zoom"},
                    longitude |-> 2, latitude |-> 48, zoom |-> 10,
                    label |-> ""]]] >>] >>

messages_default == <<>>

VARIABLES
    messages,       \* messages.value: the local message log
    zoom_level,     \* zoom_level.value
    center,         \* center.value: <<latitude, longitude>>
    markers,        \* markers.value: sequence of [location, label]
    run_id,         \* run_id.value: None or the id of the run being polled
    resultState,    \* result.state of use_thread(poll)
    pendingStarts,  \* poll launches requested by changes of run_id.value
    uiPc,           \* position of the UI thread inside add_message
    new_message,    \* add_message's local new_message
    wpc,            \* position of the poll worker
    run,            \* poll's local run (the last retrieved snapshot)
    idx,            \* poll's position in run...tool_calls (for loop)
    tool_output,    \* poll's local tool_output
    completed,      \* poll's local completed
    retrieved,      \* poll's local retrieved_messages.data
    svcMessages,    \* service: the thread's messages, oldest first
    runStatus,      \* service: status of each run ("none" = not created yet)
    pending,        \* service: the tool calls each run is waiting for
    answered,       \* service: ids of pending calls that got an output
    issued,         \* service: every requires_action payload, in order
    submitted,      \* service: every submit_tool_outputs request, in order
    executed,       \* history: ids of the tool calls ai_call completed
    handled,        \* history: runs whose completed status poll has handled
    lastOp          \* history: "add_message_empty" / "not_found" after a step that
                    \* was that call, "step" after every other step

vars == <<messages, zoom_level, center, markers, run_id, resultState,
          pendingStarts, uiPc, new_message, wpc, run, idx, tool_output,
          completed, retrieved, svcMessages, runStatus, pending,
          answered, issued, submitted, executed, handled, lastOp>>

uiVars == <<uiPc, new_message>>
mapVars == <<zoom_level, center, markers>>
pollLocals == <<run, idx, tool_output, completed, retrieved>>
svcRunVars == <<runStatus, pending, answered, issued>>

Runs == 1..MaxRuns
Texts == {"", "Go to Paris"}

\* ------------------------------------------------------------ tool calls
\* function.arguments is a JSON string: json_ok says whether json.loads
\* accepts it, keys are the keys of the decoded object, the other fields
\* are the values stored under those keys (unused ones are 0 / "").
Args(ok, keys, lon, lat, zoom, label) ==
    [json_ok |-> ok, keys |-> keys, longitude |-> lon, latitude |-> lat,
     zoom |-> zoom, label |-> label]

\* The calls the assistant may ask for: tool_call.function (name, arguments).
CallPool ==
    { [name |-> "update_map",
       arguments |-> Args(TRUE, {"longitude", "latitude", "zoom"}, 2, 48, 10, "")],
      [name |-> "update_map",
       arguments |-> Args(TRUE, {"longitude", "latitude", "zoom"}, 13, 52, 5, "")],
      [name |-> "add_marker",
       arguments |-> Args(TRUE, {"longitude", "latitude", "label"}, 2, 48, 0, "Paris")],
      [name |-> "add_marker",
       arguments |-> Args(TRUE, {"longitude", "latitude", "label"}, 13, 52, 0, "Berlin")],
      [name |-> "remove_marker",
       arguments |-> Args(TRUE, {"longitude", "latitude", "label"}, 2, 48, 0, "Paris")],
      [name |-> "update_map",
       arguments |-> Args(TRUE, {"longitude", "latitude"}, 2, 48, 0, "")],
      [name |-> "add_marker",
       arguments |-> Args(FALSE, {}, 0, 0, 0, "")] }

\* Payloads: every non-empty sequence of at most MaxBatch calls of the pool.
Payloads == UNION { [1..n -> CallPool] : n \in 1..MaxBatch }

\* tools / functions: the registry and each function's parameters.
functions == {"update_map", "add_marker"}

Parameters(name) ==
    IF name = "update_map" THEN {"longitude", "latitude", "zoom"}
    ELSE {"longitude", "latitude", "label"}

\* ai_call raises (json.loads fails, functions[name] is a KeyError, or
\* **arguments does not match the function's parameters).
Raises(tool_call) ==
    \/ ~tool_call.function.arguments.json_ok
    \/ tool_call.function.name \notin functions
    \/ tool_call.function.arguments.keys # Parameters(tool_call.function.name)

\* update_map with center set to (longitude, latitude).
update_map_swapped(longitude, latitude, zoom) ==
    <<<<longitude, latitude>>, zoom>>

\* update_map: the new <<center, zoom_level>>.
update_map(longitude, latitude, zoom) ==
    <<<<latitude, longitude>>, zoom>>

\* add_marker with the new marker put first.
add_marker_front(longitude, latitude, label) ==
    <<[location |-> <<latitude, longitude>>, label |-> label]>> \o markers

\* add_marker: the new markers.value.
add_marker(longitude, latitude, label) ==
    markers \o <<[location |-> <<latitude, longitude>>, label |-> label]>>

ReturnValue(name) ==
    IF name = "update_map" THEN "Map updated" ELSE "Marker added"

\* ai_call's result dictionary.
ToolOutput(tool_call) ==
    [tool_call_id |-> tool_call.id,
     output |-> ReturnValue(tool_call.function.name)]

\* ---------------------------------------------------------- the service
\* messages.list(...).data: newest first.
RECURSIVE Reverse(_)
Reverse(s) == IF s = <<>> THEN <<>> ELSE Append(Reverse(Tail(s)), Head(s))

MessagesList == Reverse(svcMessages)

Message(role, content) ==
    [id |-> Len(svcMessages) + 1, role |-> role, content |-> content]

NoMessage == [id |-> 0, role |-> "none", content |-> ""]
NoRun == [id |-> None, status |-> "none", tool_calls |-> <<>>]
NoOutput == [tool_call_id |-> 0, output |-> ""]

CallsIssued ==
    LET RECURSIVE Count(_)
        Count(s) == IF s = <<>> THEN 0 ELSE Len(Head(s).tool_calls) + Count(Tail(s))
    IN Count(issued)

\* ids of the calls of a payload
Ids(calls) == { calls[i].id : i \in DOMAIN calls }

Init ==
    /\ messages = messages_default
    /\ zoom_level = zoom_default
    /\ center = center_default
    /\ markers = <<>>
    /\ run_id = None
    /\ resultState = "INITIAL"
    /\ pendingStarts = 1
    /\ uiPc = "mount"
    /\ new_message = NoMessage
    /\ wpc = "idle"
    /\ run = NoRun
    /\ idx = 1
    /\ tool_output = NoOutput
    /\ completed = FALSE
    /\ retrieved = <<>>
    /\ svcMessages = <<>>
    /\ runStatus = [r \in Runs |-> "none"]
    /\ pending = [r \in Runs |-> <<>>]
    /\ answered = [r \in Runs |-> {}]
    /\ issued = <<>>
    /\ submitted = <<>>
    /\ executed = <<>>
    /\ handled = {}
    /\ lastOp = "step"

\* ------------------------------------------------------------ UI thread
\* InputText(disabled = result.state == RUNNING): the callback is not
\* delivered while the worker is running.
InputDisabled == resultState = "RUNNING"

\* add_message without its test for the empty string.
IsEmptyNever(value) == FALSE

\* if value == "": return
IsEmpty(value) == value = ""

RunsCreated == Cardinality({r \in Runs : runStatus[r] # "none"})

\* add_message, up to and including messages.create.
AddMessage(value) ==
    /\ uiPc = "idle"
    /\ ~InputDisabled
    /\ lastOp' = IF value = "" THEN "add_message_empty" ELSE "step"
    /\ IF IsEmpty(value)
       THEN UNCHANGED <<svcMessages, uiVars>>
       ELSE /\ RunsCreated < MaxRuns
            /\ new_message' = Message("user", value)
            /\ svcMessages' = Append(svcMessages, new_message')
            /\ uiPc' = "set_messages"
    /\ UNCHANGED <<messages, mapVars, run_id, resultState, pendingStarts, wpc,
                   pollLocals, svcRunVars, submitted, executed, handled>>

\* messages.set([*messages.value, new_message])
\* A log that puts the new message in front.
LogUserMessageFirst == <<new_message>> \o messages

\* [*messages.value, new_message]
LogWithUserMessage == Append(messages, new_message)

AddMessageSet ==
    /\ uiPc = "set_messages"
    /\ messages' = LogWithUserMessage
    /\ uiPc' = "create_run"
    /\ lastOp' = "step"
    /\ UNCHANGED <<mapVars, run_id, resultState, pendingStarts, new_message, wpc,
                   pollLocals, svcMessages, svcRunVars, submitted, executed, handled>>

\* run_id.value = runs.create(...).id; the change of run_id.value makes
\* use_thread launch poll again.  The new run is not yet visible to retrieve.
AddMessageRun ==
    /\ uiPc = "create_run"
    /\ \E r \in Runs :
        /\ runStatus[r] = "none"
        /\ \A q \in Runs : q < r => runStatus[q] # "none"
        /\ runStatus' = [runStatus EXCEPT ![r] = "not_yet_visible"]
        /\ run_id' = r
    /\ pendingStarts' = pendingStarts + 1
    /\ uiPc' = "idle"
    /\ new_message' = NoMessage
    /\ lastOp' = "step"
    /\ UNCHANGED <<messages, mapVars, resultState, wpc, pollLocals, svcMessages,
                   pending, answered, issued, submitted, executed, handled>>

\* message.get("tool_calls", []): the calls stored in a log entry, none for
\* an entry without that key.
MessageToolCalls(message) ==
    IF "tool_calls" \in DOMAIN message THEN message.tool_calls ELSE <<>>

\* handle_message over the whole log: the tool calls of the assistant
\* entries, in log order.
RECURSIVE LogToolCalls(_)
LogToolCalls(log) ==
    IF log = <<>> THEN <<>>
    ELSE (IF Head(log).role = "assistant" THEN MessageToolCalls(Head(log))
          ELSE <<>>) \o LogToolCalls(Tail(log))

\* ai_call for each of the calls in turn, starting from the map state
\* <<c, z, ms>> = <<center, zoom_level, markers>>; a call that raises ends
\* the replay with the writes made so far.
RECURSIVE Replay(_, _, _, _)
Replay(calls, c, z, ms) ==
    IF calls = <<>> \/ Raises(Head(calls)) THEN <<c, z, ms>>
    ELSE LET f == Head(calls).function
             a == f.arguments
         IN IF f.name = "update_map"
            THEN Replay(Tail(calls),
                        update_map(a.longitude, a.latitude, a.zoom)[1],
                        update_map(a.longitude, a.latitude, a.zoom)[2], ms)
            ELSE Replay(Tail(calls), c, z,
                        ms \o <<[location |-> <<a.latitude, a.longitude>>,
                                 label |-> a.label]>>)

\* use_effect(handle_initial, []): once, after the first render, on the UI
\* thread: handle_message for every entry of messages.value.
HandleInitial ==
    /\ uiPc = "mount"
    /\ LET m == Replay(LogToolCalls(messages), center, zoom_level, markers)
       IN /\ center' = m[1]
          /\ zoom_level' = m[2]
          /\ markers' = m[3]
    /\ uiPc' = "idle"
    /\ lastOp' = "step"
    /\ UNCHANGED <<messages, run_id, resultState, pendingStarts, new_message,
                   wpc, pollLocals, svcMessages, svcRunVars, submitted,
                   executed, handled>>

\* ---------------------------------------------------------- poll worker
\* use_thread(poll, dependencies=[run_id.value]): a requested launch starts
\* once no earlier poll is running; result.state becomes RUNNING.
PollStart ==
    /\ wpc = "idle"
    /\ pendingStarts > 0
    /\ pendingStarts' = pendingStarts - 1
    /\ resultState' = "RUNNING"
    /\ wpc' = "entry"
    /\ lastOp' = "step"
    /\ UNCHANGED <<messages, mapVars, run_id, uiVars, pollLocals, svcMessages,
                   svcRunVars, submitted, executed, handled>>

\* poll's frame is gone once it returns or raises.
PollLocalsDropped ==
    /\ run' = NoRun
    /\ idx' = 1
    /\ tool_output' = NoOutput
    /\ completed' = FALSE
    /\ retrieved' = <<>>

\* if not run_id.value: return / completed = False
\* A poll that treats every handle as a run to wait for.
NoActiveRunNever == FALSE

\* if not run_id.value
NoActiveRun == run_id = None

PollEntry ==
    /\ wpc = "entry"
    /\ IF NoActiveRun
       THEN /\ wpc' = "idle"
            /\ resultState' = "FINISHED"
       ELSE /\ wpc' = "retrieve"
            /\ UNCHANGED resultState
    /\ lastOp' = "step"
    /\ UNCHANGED <<messages, mapVars, run_id, pendingStarts, uiVars, pollLocals,
                   svcMessages, svcRunVars, submitted, executed, handled>>

\* A poll without the except clause: NotFoundError leaves the loop.
NotFoundRaise == "idle"

\* except openai.NotFoundError: continue -- back to the top of the loop.
NotFoundContinue == "retrieve"

\* run = runs.retrieve(run_id.value, ...); NotFoundError: continue
PollRetrieve ==
    /\ wpc = "retrieve"
    /\ run_id # None
    /\ IF runStatus[run_id] = "not_yet_visible"
       THEN /\ lastOp' = "not_found"
            /\ wpc' = NotFoundContinue
            /\ UNCHANGED <<run, idx>>
       ELSE /\ run' = [id |-> run_id, status |-> runStatus[run_id],
                       tool_calls |-> pending[run_id]]
            /\ idx' = 1
            /\ wpc' = "dispatch"
            /\ lastOp' = "step"
    /\ UNCHANGED <<messages, mapVars, run_id, resultState, pendingStarts, uiVars,
                   tool_output, completed, retrieved, svcMessages, svcRunVars,
                   submitted, executed, handled>>

\* The effect of functions[name](**arguments) on <<center, zoom_level, markers>>.
Apply(function) ==
    LET a == function.arguments IN
    IF function.name = "update_map"
    THEN /\ center' = update_map(a.longitude, a.latitude, a.zoom)[1]
         /\ zoom_level' = update_map(a.longitude, a.latitude, a.zoom)[2]
         /\ UNCHANGED markers
    ELSE /\ markers' = add_marker(a.longitude, a.latitude, a.label)
         /\ UNCHANGED <<center, zoom_level>>

\* A loop that walks the payload from its last call to its first.
CurrentCallBackwards == run.tool_calls[Len(run.tool_calls) + 1 - idx]

\* for tool_call in run.required_action.submit_tool_outputs.tool_calls:
\* the call of the current iteration.
CurrentCall == run.tool_calls[idx]

\* for tool_call in ...tool_calls: tool_output = ai_call(tool_call)
\* An exception ends the worker: result.state becomes ERROR.
PollToolCall ==
    /\ wpc = "dispatch"
    /\ run.status = "requires_action"
    /\ idx <= Len(run.tool_calls)
    /\ LET tool_call == CurrentCall IN
       IF Raises(tool_call)
       THEN /\ wpc' = "idle"
            /\ resultState' = "ERROR"
            /\ PollLocalsDropped
            /\ UNCHANGED <<mapVars, executed, handled>>
       ELSE /\ Apply(tool_call.function)
            /\ tool_output' = ToolOutput(tool_call)
            /\ executed' = Append(executed, tool_call.id)
            /\ wpc' = "submit"
            /\ UNCHANGED <<resultState, run, idx, completed, retrieved, handled>>
    /\ lastOp' = "step"
    /\ UNCHANGED <<messages, run_id, pendingStarts, uiVars, svcMessages,
                   svcRunVars, submitted>>

\* The service's handling of submit_tool_outputs(run_id, tool_outputs): the
\* request is recorded; outputs for pending calls of the run are taken, and
\* once every pending call has one the run is queued again.
SubmitToolOutputs(r, tool_outputs) ==
    LET ids == {tool_outputs[i].tool_call_id : i \in DOMAIN tool_outputs}
        waiting == r # None /\ runStatus[r] = "requires_action"
        got == IF waiting THEN answered[r] \cup (ids \cap Ids(pending[r])) ELSE {}
        all == waiting /\ got = Ids(pending[r])
    IN
    /\ submitted' = Append(submitted, [run_id |-> r, tool_outputs |-> tool_outputs])
    /\ IF ~waiting
       THEN UNCHANGED <<runStatus, pending, answered>>
       ELSE /\ runStatus' = [runStatus EXCEPT ![r] = IF all THEN "queued" ELSE @]
            /\ pending' = [pending EXCEPT ![r] = IF all THEN <<>> ELSE @]
            /\ answered' = [answered EXCEPT ![r] = IF all THEN {} ELSE got]

\* tool_outputs=[tool_output]: the list handed to submit_tool_outputs.
ToolOutputs == <<tool_output>>

\* runs.submit_tool_outputs(run_id=run_id.value, tool_outputs=[tool_output])
PollSubmit ==
    /\ wpc = "submit"
    /\ SubmitToolOutputs(run_id, ToolOutputs)
    /\ idx' = idx + 1
    /\ wpc' = "dispatch"
    /\ lastOp' = "step"
    /\ UNCHANGED <<messages, mapVars, run_id, resultState, pendingStarts, uiVars,
                   run, tool_output, completed, retrieved, svcMessages, issued,
                   executed, handled>>

\* [*messages.value, messages.list(thread.id).data[0]]
LogWithNewest == Append(messages, Head(MessagesList))

\* The completed branch without run_id.set(None).
HandleKept == run_id

\* run_id.set(None)

HandleCleared == None

\* if run.status == "completed": append the newest message, run_id.set(None),
\* completed = True; then time.sleep(0.1) and the test of "while not
\* completed".  The change of run_id.value requests a poll launch.
PollCheck ==
    /\ wpc = "dispatch"
    /\ ~(run.status = "requires_action" /\ idx <= Len(run.tool_calls))
    /\ IF run.status = "completed"
       THEN /\ messages' = LogWithNewest
            /\ run_id' = HandleCleared
            /\ pendingStarts' = IF run_id' # run_id THEN pendingStarts + 1
                                ELSE pendingStarts
            /\ completed' = TRUE
            /\ handled' = handled \cup {run.id}
       ELSE UNCHANGED <<messages, run_id, pendingStarts, completed, handled>>
    /\ wpc' = IF completed' THEN "list" ELSE "retrieve"
    /\ lastOp' = "step"
    /\ UNCHANGED <<mapVars, resultState, uiVars, run, idx, tool_output, retrieved,
                   svcMessages, svcRunVars, submitted, executed>>

\* retrieved_messages = messages.list(thread_id=thread.id)
PollList ==
    /\ wpc = "list"
    /\ retrieved' = MessagesList
    /\ wpc' = "set"
    /\ lastOp' = "step"
    /\ UNCHANGED <<messages, mapVars, run_id, resultState, pendingStarts, uiVars,
                   run, idx, tool_output, completed, svcMessages, svcRunVars,
                   submitted, executed, handled>>

\* messages.set(retrieved_messages.data); poll returns.
PollSetMessages ==
    /\ wpc = "set"
    /\ messages' = retrieved
    /\ wpc' = "idle"
    /\ resultState' = "FINISHED"
    /\ PollLocalsDropped
    /\ lastOp' = "step"
    /\ UNCHANGED <<mapVars, run_id, pendingStarts, uiVars, svcMessages,
                   svcRunVars, submitted, executed, handled>>

\* ------------------------------------------------- the service's own steps
\* not_yet_visible -> queued: retrieve finds the run from now on
SvcIndex(r) ==
    /\ runStatus[r] = "not_yet_visible"
    /\ runStatus' = [runStatus EXCEPT ![r] = "queued"]
    /\ lastOp' = "step"
    /\ UNCHANGED <<messages, mapVars, run_id, resultState, pendingStarts, uiVars,
                   wpc, pollLocals, svcMessages, pending, answered, issued,
                   submitted, executed, handled>>

\* queued -> in_progress
SvcStart(r) ==
    /\ runStatus[r] = "queued"
    /\ runStatus' = [runStatus EXCEPT ![r] = "in_progress"]
    /\ lastOp' = "step"
    /\ UNCHANGED <<messages, mapVars, run_id, resultState, pendingStarts, uiVars,
                   wpc, pollLocals, svcMessages, pending, answered, issued,
                   submitted, executed, handled>>

\* in_progress -> requires_action with a payload of tool calls (fresh ids)
SvcRequireAction(r, payload) ==
    /\ runStatus[r] = "in_progress"
    /\ CallsIssued + Len(payload) <= MaxCalls
    /\ LET calls == [i \in 1..Len(payload) |->
                        [id |-> CallsIssued + i, function |-> payload[i]]]
       IN /\ pending' = [pending EXCEPT ![r] = calls]
          /\ issued' = Append(issued, [run |-> r, tool_calls |-> calls])
    /\ answered' = [answered EXCEPT ![r] = {}]
    /\ runStatus' = [runStatus EXCEPT ![r] = "requires_action"]
    /\ lastOp' = "step"
    /\ UNCHANGED <<messages, mapVars, run_id, resultState, pendingStarts, uiVars,
                   wpc, pollLocals, svcMessages, submitted, executed, handled>>

\* in_progress -> completed: the assistant's answer is added to the thread
SvcComplete(r) ==
    /\ runStatus[r] = "in_progress"
    /\ runStatus' = [runStatus EXCEPT ![r] = "completed"]
    /\ svcMessages' = Append(svcMessages, Message("assistant", "reply"))
    /\ lastOp' = "step"
    /\ UNCHANGED <<messages, mapVars, run_id, resultState, pendingStarts, uiVars,
                   wpc, pollLocals, pending, answered, issued, submitted,
                   executed, handled>>

\* in_progress -> failed
SvcFail(r) ==
    /\ runStatus[r] = "in_progress"
    /\ runStatus' = [runStatus EXCEPT ![r] = "failed"]
    /\ lastOp' = "step"
    /\ UNCHANGED <<messages, mapVars, run_id, resultState, pendingStarts, uiVars,
                   wpc, pollLocals, svcMessages, pending, answered, issued,
                   submitted, executed, handled>>

Next ==
    \/ HandleInitial
    \/ \E value \in Texts : AddMessage(value)
    \/ AddMessageSet
    \/ AddMessageRun
    \/ PollStart
    \/ PollEntry
    \/ PollRetrieve
    \/ PollToolCall
    \/ PollSubmit
    \/ PollCheck
    \/ PollList
    \/ PollSetMessages
    \/ \E r \in Runs : SvcIndex(r)
    \/ \E r \in Runs : SvcStart(r)
    \/ \E r \in Runs : \E payload \in Payloads : SvcRequireAction(r, payload)
    \/ \E r \in Runs : SvcComplete(r)
    \/ \E r \in Runs : SvcFail(r)

Spec == Init /\ [][Next]_vars

\* The steps of the poll thread.
PollWorker ==
    \/ PollStart
    \/ PollEntry
    \/ PollRetrieve
    \/ PollToolCall
    \/ PollSubmit
    \/ PollCheck
    \/ PollList
    \/ PollSetMessages

\* Fair scheduling of the poll thread: a started thread keeps running, and
\* time.sleep(0.1) and the calls to the service return.  Nothing is assumed
\* about the UI thread (the user may never type) or about the service.
FairSpec == Spec /\ WF_vars(PollWorker)

\* ------------------------------------------------------------ properties
Active == {"not_yet_visible", "queued", "in_progress", "requires_action"}

IsPrefix(s, t) == Len(s) <= Len(t) /\ \A i \in DOMAIN s : s[i] = t[i]

\* The step is one of the poll worker (no other thread moves wpc).
PollStep == wpc' # wpc

\* The worker completes ai_call for run.tool_calls[idx] in this step.
ToolCallStep == wpc = "dispatch" /\ wpc' = "submit"

\* How many entries of sequence s satisfy being equal to x.
Occurrences(s, x) == Cardinality({i \in DOMAIN s : s[i] = x})

\* How many outputs for tool call id the service has been sent, over all
\* submit_tool_outputs requests.
Answers(subs, id) ==
    LET RECURSIVE Sum(_)
        Sum(q) == IF q = <<>> THEN 0
                  ELSE Cardinality({k \in DOMAIN Head(q).tool_outputs :
                                      Head(q).tool_outputs[k].tool_call_id = id})
                       + Sum(Tail(q))
    IN Sum(subs)

\* C1: while the run handle is active (run_id set, its run not in a terminal
\* status) no step creates another run for the thread: a second add_message
\* is rejected or queued.
C1_NoSecondRunWhileActive ==
    [][(run_id # None /\ runStatus[run_id] \in Active)
        => \A r \in Runs : runStatus[r] = "none" => runStatus'[r] = "none"]_vars

\* C2: every submit_tool_outputs request answers one whole requires_action
\* payload: it carries exactly as many outputs as the payload has tool calls,
\* and the k-th output's tool_call_id is the id of the k-th call.
C2_WholeBatchSubmitted ==
    \A i \in DOMAIN submitted :
        \E j \in DOMAIN issued :
            /\ issued[j].run = submitted[i].run_id
            /\ Len(submitted[i].tool_outputs) = Len(issued[j].tool_calls)
            /\ \A k \in DOMAIN issued[j].tool_calls :
                   submitted[i].tool_outputs[k].tool_call_id
                       = issued[j].tool_calls[k].id

\* C3: when the poll loop handles a retrieved status failed, the map and the
\* message log stay as they are, the run handle is cleared and the loop is
\* left (no further retrieve), so that poll returns and input is enabled.
C3_FailedRunReleased ==
    [][(wpc = "dispatch" /\ run.status = "failed" /\ PollStep)
        => /\ run_id' = None
           /\ wpc' # "retrieve"
           /\ UNCHANGED <<messages, mapVars>>]_vars

\* C4: when the worker leaves the handling of a requires_action snapshot (for
\* the next poll iteration, or by ending), every tool call of the snapshot
\* has been executed exactly once and answered with exactly one output.
C4_EachCallAnsweredOnce ==
    [][(wpc = "dispatch" /\ run.status = "requires_action"
            /\ wpc' \in {"retrieve", "list", "idle"})
        => \A k \in DOMAIN run.tool_calls :
              /\ Occurrences(executed', run.tool_calls[k].id) = 1
              /\ Answers(submitted', run.tool_calls[k].id) = 1]_vars

\* C5: for a requires_action payload holding a call that ai_call cannot run
\* (unknown name, malformed or missing arguments), no submit_tool_outputs
\* request carries an output for any call of that payload.
C5_NoSubmissionForBadBatch ==
    \A j \in DOMAIN issued :
        (\E k \in DOMAIN issued[j].tool_calls : Raises(issued[j].tool_calls[k]))
        => \A i \in DOMAIN submitted :
              \A k \in DOMAIN submitted[i].tool_outputs :
                  submitted[i].tool_outputs[k].tool_call_id
                      \notin Ids(issued[j].tool_calls)

\* C6: the message log is append-only: in every step the log before the step
\* is a prefix of the log after it.
C6_LogAppendOnly == [][IsPrefix(messages, messages')]_vars

\* The tool calls the service has requested for run r, in order.
CallsOf(r) ==
    LET RECURSIVE Cat(_)
        Cat(q) == IF q = <<>> THEN <<>>
                  ELSE (IF Head(q).run = r THEN Head(q).tool_calls ELSE <<>>)
                       \o Cat(Tail(q))
    IN Cat(issued)

\* Run r went through exactly one tool call, a well-formed update_map.
OneUpdateMap(r) ==
    /\ Len(CallsOf(r)) = 1
    /\ CallsOf(r)[1].function.name = "update_map"
    /\ ~Raises(CallsOf(r)[1])

C8_EmptyMessageNoOp ==
    [][lastOp' = "add_message_empty"
        => UNCHANGED <<messages, mapVars, run_id, svcMessages, svcRunVars,
                       submitted, uiVars, resultState, pendingStarts, wpc,
                       pollLocals>>]_vars

\* Reached: add_message("") was called with a log, a marker and a run present.
C8_Witness ==
    /\ lastOp = "add_message_empty"
    /\ messages # <<>>
    /\ markers # <<>>
    /\ run_id # None

\* C9: a completed add_marker(longitude, latitude, label) call leaves the
\* marker list equal to the previous list with the one marker
\* [location = (latitude, longitude), label] appended, and leaves center and
\* zoom_level unchanged.
C9_AddMarkerAppends ==
    [][(ToolCallStep /\ run.tool_calls[idx].function.name = "add_marker")
        => LET a == run.tool_calls[idx].function.arguments
           IN /\ markers' = Append(markers, [location |-> <<a.latitude, a.longitude>>,
                                             label |-> a.label])
              /\ UNCHANGED <<center, zoom_level>>]_vars

\* Reached: add_marker has just appended a second, different marker.
C9_Witness ==
    /\ wpc = "submit"
    /\ tool_output.output = "Marker added"
    /\ Len(markers) = 2
    /\ markers[1] # markers[2]

\* C10: a completed update_map(longitude, latitude, zoom) call leaves center
\* equal to (latitude, longitude), latitude first, and zoom_level equal to zoom.
C10_UpdateMapSetsCenterZoom ==
    [][(ToolCallStep /\ run.tool_calls[idx].function.name = "update_map")
        => LET a == run.tool_calls[idx].function.arguments
           IN /\ center' = <<a.latitude, a.longitude>>
              /\ zoom_level' = a.zoom]_vars

\* Reached: update_map(13, 52, 5) has just run on a map centred elsewhere.
C10_Witness ==
    /\ wpc = "submit"
    /\ tool_output.output = "Map updated"
    /\ center = <<52, 13>>
    /\ zoom_level = 5
    /\ Len(executed) = 2

\* C11: when the worker submits a tool output, the message log already
\* holds that ToolResult (an entry of role "tool" for the same tool call).
C11_ResultLoggedBeforeSubmit ==
    [][(wpc = "submit" /\ PollStep)
        => \E i \in DOMAIN messages :
              /\ messages[i].role = "tool"
              /\ messages[i].id = tool_output.tool_call_id
              /\ messages[i].content = tool_output.output]_vars

\* C12: a retrieve answered "not found" is retried: the worker stays in its
\* loop at the retrieve statement with the run handle still set, no error is
\* surfaced, and the log, the map state and run_id are as before.
C12_NotFoundRetried ==
    [][lastOp' = "not_found"
        => /\ wpc = "retrieve" /\ wpc' = "retrieve"
           /\ resultState = "RUNNING" /\ resultState' = "RUNNING"
           /\ run_id' # None
           /\ runStatus'[run_id'] = "not_yet_visible"
           /\ UNCHANGED <<messages, mapVars, run_id, pollLocals>>]_vars

C12_Witness ==
    /\ lastOp = "not_found"
    /\ wpc = "retrieve"
    /\ Len(messages) > 0

\* C13: center, zoom_level and markers change only in a step of the poll
\* worker that executes a tool call of a run it saw in requires_action; no
\* step of the UI thread (handle_initial at mount, add_message with an empty
\* or a non-empty text) changes them.
C13_MapWrittenByToolCallsOnly ==
    [][/\ (mapVars' # mapVars)
            => (ToolCallStep /\ run.status = "requires_action"
                /\ resultState = "RUNNING" /\ UNCHANGED uiVars)
       /\ (uiPc' # uiPc \/ lastOp' = "add_message_empty")
            => UNCHANGED mapVars]_vars

C13_Witness ==
    /\ uiPc = "create_run"
    /\ markers # <<>>
    /\ center # center_default

\* The worker is in poll's loop for run r (it holds no snapshot of another
\* run).
Polling(r) ==
    /\ run_id = r
    /\ wpc \in {"entry", "retrieve", "dispatch", "submit"}
    /\ run.id \in {None, r}

Stopped == wpc = "idle" /\ run_id = None /\ resultState = "FINISHED"

\* C14: under fair scheduling of the poll thread, a worker that is polling
\* run r stops with run_id cleared whenever the service eventually reports
\* r completed, whatever rounds of not-found, queued, in_progress and
\* requires_action come first.
C14_WorkerStops ==
    \A r \in Runs :
        [](Polling(r) => (<>(runStatus[r] = "completed") => <>Stopped))

\* C15: add_message with a non-empty text creates one user message, appends
\* it as the last element of the log, and only then creates exactly one run,
\* stores its id in run_id and returns while that run has not progressed;
\* the user message is in the log when the run handle is set.
C15_MessageThenRun ==
    [][/\ (uiPc = "idle" /\ uiPc' = "set_messages")
            => /\ new_message'.role = "user"
               /\ new_message'.content \in Texts \ {""}
               /\ UNCHANGED <<messages, run_id, runStatus>>
       /\ (uiPc = "set_messages" /\ uiPc' # uiPc)
            => /\ uiPc' = "create_run"
               /\ messages' = Append(messages, new_message)
               /\ UNCHANGED <<new_message, run_id, runStatus>>
       /\ (uiPc = "create_run" /\ uiPc' # uiPc)
            => /\ uiPc' = "idle"
               /\ \E i \in DOMAIN messages : messages[i] = new_message
               /\ run_id' \in Runs
               /\ runStatus[run_id'] = "none"
               /\ runStatus' = [runStatus EXCEPT ![run_id'] = "not_yet_visible"]
               /\ UNCHANGED messages]_vars

C15_Witness ==
    /\ uiPc = "idle"
    /\ run_id = 2
    /\ runStatus[2] = "not_yet_visible"
    /\ handled = {1}
    /\ wpc = "idle"
    /\ resultState = "FINISHED"
    /\ Len(messages) = 3
    /\ messages[3].role = "user"

\* C16: when the worker returns after a completed run, the log it leaves is
\* the service's message list of that moment, in the service's order.
C16_LogIsServiceList ==
    [][(wpc = "set" /\ wpc' = "idle") => messages' = Reverse(svcMessages')]_vars

IsSuffix(s, t) ==
    /\ Len(s) <= Len(t)
    /\ \A i \in DOMAIN s : s[i] = t[Len(t) - Len(s) + i]

\* The markers that the add_marker calls among calls ask for, in order.
RECURSIVE MarkersAsked(_)
MarkersAsked(calls) ==
    IF calls = <<>> THEN <<>>
    ELSE LET f == Head(calls).function IN
         (IF f.name = "add_marker"
          THEN <<[location |-> <<f.arguments.latitude, f.arguments.longitude>>,
                  label |-> f.arguments.label]>>
          ELSE <<>>) \o MarkersAsked(Tail(calls))

\* The calls of the payload the worker has executed so far in this pass.
CallsDone ==
    SubSeq(run.tool_calls, 1, IF wpc = "submit" THEN idx ELSE idx - 1)

\* C17: while the worker goes through a requires_action payload, the calls
\* it has executed are the first calls of the payload, executed in payload
\* order, and the markers they asked for are the last entries of markers,
\* in payload order, behind every marker that was there before.
C17_PayloadOrder ==
    (wpc \in {"dispatch", "submit"} /\ run.status = "requires_action")
      => /\ IsSuffix([i \in DOMAIN CallsDone |-> CallsDone[i].id], executed)
         /\ IsSuffix(MarkersAsked(CallsDone), markers)

C17_Witness ==
    /\ wpc = "dispatch"
    /\ run.status = "requires_action"
    /\ idx = 3
    /\ Len(MarkersAsked(run.tool_calls)) = 2
    /\ markers = MarkersAsked(run.tool_calls)
    /\ markers[1] # markers[2]

\* C18: a poll that starts while run_id is None returns at once: its only
\* step ends the worker with result.state FINISHED, and it changes neither
\* the log, the map state or run_id, nor anything at the service (no run is
\* retrieved, no message listed, no output submitted).
C18_IdlePollReturns ==
    [][(wpc = "entry" /\ run_id = None /\ PollStep)
        => /\ wpc' = "idle"
           /\ resultState' = "FINISHED"
           /\ UNCHANGED <<messages, mapVars, run_id, pendingStarts, pollLocals,
                          svcMessages, svcRunVars, submitted, executed,
                          handled>>]_vars

C18_Witness ==
    /\ wpc = "idle"
    /\ resultState = "FINISHED"
    /\ run_id = None
    /\ handled # {}
    /\ pendingStarts = 0
    /\ messages = Reverse(svcMessages)

=============================================================================
